---- MODULE Spec2Model ----
(***************************************************************************)
(* Model of the URL shortener of src/main.py: the in-memory store url_db,  *)
(* the two business counters and the three Flask handlers encurtar_url,    *)
(* redirecionar and listar_links, run by concurrent worker threads.        *)
(*                                                                         *)
(* encurtar_url is modelled step by step (59 generate, 61 membership test  *)
(* with the regeneration of line 62, 63 store write, 64 counter increment),*)
(* because other threads may run between the test and the write.           *)
(* redirecionar and listar_links touch url_db in one dictionary operation  *)
(* each, and a refused POST touches nothing: they are single steps, taken  *)
(* by threads of their own at any moment.                                  *)
(***************************************************************************)
EXTENDS Naturals, Sequences, FiniteSets

(* ------------------------------ bounds --------------------------------- *)
\* threads that can be inside encurtar_url at the same time
NThreads == 2
\* requests accepted during one run (caps the counters)
MaxPedidos == 3
\* how many characters of the alphabet the random source gives out
NumCaracteres == 2

(* --------------------------- program constants ------------------------- *)
\* gerar_codigo_curto(tamanho=6)
tamanho_padrao == 6

(* ------------------------------ values --------------------------------- *)
\* Python's None (also what JSON null decodes to)
NoneVal == "None"

Threads == 1..NThreads

\* string.ascii_letters + string.digits
caracteres ==
  <<"a","b","c","d","e","f","g","h","i","j","k","l","m",
    "n","o","p","q","r","s","t","u","v","w","x","y","z",
    "A","B","C","D","E","F","G","H","I","J","K","L","M",
    "N","O","P","Q","R","S","T","U","V","W","X","Y","Z",
    "0","1","2","3","4","5","6","7","8","9">>

\* random.choice(caracteres) for the i-th character of a code of n: the
\* model's random source varies the last character only, over the first
\* NumCaracteres characters of the alphabet, and gives the first character
\* of the alphabet everywhere else
random_choice(i, n) ==
  IF i = n THEN {caracteres[k] : k \in 1..NumCaracteres} ELSE {caracteres[1]}

\* ''.join(random.choice(caracteres) for _ in range(tamanho)), from the
\* i-th character on: every string the remaining draws can give
RECURSIVE junta(_, _)
junta(i, tamanho) ==
  IF i > tamanho
    THEN {<<>>}
    ELSE {<<x>> \o r : x \in random_choice(i, tamanho),
                        r \in junta(i + 1, tamanho)}

\* faulty variant of gerar_codigo_curto: range(1, tamanho), one draw short
gerar_codigo_curto_menos_um(tamanho) == junta(2, tamanho)

\* gerar_codigo_curto(tamanho): every string of tamanho drawn characters is
\* a possible result of the call
gerar_codigo_curto(tamanho) == junta(1, tamanho)

\* the codes encurtar_url can draw: gerar_codigo_curto()
Codigos == gerar_codigo_curto(tamanho_padrao)

\* a path segment the model's random source never draws as a code
CodigoFora == <<"z","z","z","z","z","z">>

\* the <string:codigo_curto> values a GET can carry
Caminhos == Codigos \cup {CodigoFora}

\* the thread has no code (it is not inside encurtar_url)
SemCodigo == <<>>

\* values the JSON field url_longa can hold
ValoresJson == {"", "https://a", "https://b"}

\* request.get_json(): None, or a dict with some keys
DadosNone == [nulo |-> TRUE, chaves |-> {}, url_longa |-> NoneVal]

DadosDict(ks, v) == [nulo |-> FALSE, chaves |-> ks, url_longa |-> v]

CorposJson ==
  {DadosNone, DadosDict({}, NoneVal), DadosDict({"outra"}, NoneVal)}
    \cup {DadosDict({"url_longa"}, v) : v \in ValoresJson}

\* Python truthiness of a stored value
Truthy(v) == v \notin {NoneVal, ""}

\* the empty dict
DictVazio == [c \in {} |-> NoneVal]

VARIABLES
  url_db,                    \* dict: code -> stored url_longa
  links_criados_total,       \* Counter
  redirecionamentos_total,   \* Counter
  pc,                        \* per thread: line of encurtar_url, or "idle"
  codigo_curto,              \* per thread: local of encurtar_url
  url_longa,                 \* per thread: local of encurtar_url
  pedidos,                   \* requests accepted so far
  nresp,                     \* responses sent so far
  ultima,                    \* the last response sent, with its request
  criados,                   \* log of the 201 responses: code and URL
  redirs_ok                  \* number of 302 responses sent

vars == <<url_db, links_criados_total, redirecionamentos_total, pc,
          codigo_curto, url_longa, pedidos, nresp, ultima, criados, redirs_ok>>

shared == <<url_db, links_criados_total, redirecionamentos_total>>

Resposta(op, status, dados, codigo, url, corpo) ==
  [op |-> op, status |-> status, dados |-> dados, codigo |-> codigo,
   url |-> url, corpo |-> corpo]

Init ==
  /\ url_db = DictVazio
  /\ links_criados_total = 0
  /\ redirecionamentos_total = 0
  /\ pc = [t \in Threads |-> "idle"]
  /\ codigo_curto = [t \in Threads |-> SemCodigo]
  /\ url_longa = [t \in Threads |-> NoneVal]
  /\ pedidos = 0
  /\ nresp = 0
  /\ ultima = Resposta("nenhuma", 0, DadosNone, SemCodigo, NoneVal, DictVazio)
  /\ criados = <<>>
  /\ redirs_ok = 0

\* an accepted POST /encurtar runs on the first thread that is free
Livre(t) ==
  /\ pc[t] = "idle"
  /\ \A s \in Threads : s < t => pc[s] # "idle"

(* ------------------------- encurtar_url -------------------------------- *)
\* line 56: not dados or 'url_longa' not in dados
DadosRecusados(d) ==
  \/ d.nulo
  \/ d.chaves = {}
  \/ "url_longa" \notin d.chaves

\* lines 55-57: the body is refused with 400
EncurtarRecusa(d) ==
  /\ pedidos < MaxPedidos
  /\ DadosRecusados(d)
  /\ pedidos' = pedidos + 1
  /\ nresp' = nresp + 1
  /\ ultima' = Resposta("encurtar", 400, d, SemCodigo, NoneVal, DictVazio)
  /\ UNCHANGED <<shared, pc, codigo_curto, url_longa, criados, redirs_ok>>

\* lines 55-59: the body is accepted and the first code is generated
EncurtarAceita(t, d, c) ==
  /\ Livre(t)
  /\ pedidos < MaxPedidos
  /\ ~DadosRecusados(d)
  /\ c \in Codigos
  /\ pedidos' = pedidos + 1
  /\ url_longa' = [url_longa EXCEPT ![t] = d.url_longa]
  /\ codigo_curto' = [codigo_curto EXCEPT ![t] = c]
  /\ pc' = [pc EXCEPT ![t] = "L61"]
  /\ UNCHANGED <<shared, nresp, ultima, criados, redirs_ok>>

\* faulty variant of the test of line 61: it never holds (no uniqueness loop)
CodigoEmUso_nunca(db, c) == c \in DOMAIN db /\ c \notin Codigos

\* faulty variant of the test of line 61: it never fails
CodigoEmUso_sempre(db, c) == c \in DOMAIN db \/ c \in Codigos

\* line 61: while codigo_curto in url_db
CodigoEmUso(db, c) == c \in DOMAIN db

\* line 61, the test fails: leave the loop
EncurtarLivre(t) ==
  /\ pc[t] = "L61"
  /\ ~CodigoEmUso(url_db, codigo_curto[t])
  /\ pc' = [pc EXCEPT ![t] = "L63"]
  /\ UNCHANGED <<shared, codigo_curto, url_longa, pedidos, nresp, ultima,
                 criados, redirs_ok>>

\* lines 61-62, the test holds: generate another code and test again
EncurtarColide(t, c) ==
  /\ pc[t] = "L61"
  /\ CodigoEmUso(url_db, codigo_curto[t])
  /\ c \in Codigos
  /\ codigo_curto' = [codigo_curto EXCEPT ![t] = c]
  /\ UNCHANGED <<shared, pc, url_longa, pedidos, nresp, ultima, criados,
                 redirs_ok>>

\* faulty variant of the write of line 63: the dict is replaced, not updated
Gravar_substitui(db, c, u) == [k \in {c} |-> u]

\* line 63: url_db[codigo_curto] = url_longa
Gravar(db, c, u) ==
  [k \in (DOMAIN db) \cup {c} |-> IF k = c THEN u ELSE db[k]]

EncurtarGrava(t) ==
  /\ pc[t] = "L63"
  /\ url_db' = Gravar(url_db, codigo_curto[t], url_longa[t])
  /\ pc' = [pc EXCEPT ![t] = "L64"]
  /\ UNCHANGED <<links_criados_total, redirecionamentos_total, codigo_curto,
                 url_longa, pedidos, nresp, ultima, criados, redirs_ok>>

\* faulty variant of Counter.inc(): the increment is lost
Inc_perdido(n) == n

\* Counter.inc()
Inc(n) == n + 1

\* lines 64-68: count the link and answer 201
EncurtarResponde(t) ==
  /\ pc[t] = "L64"
  /\ links_criados_total' = Inc(links_criados_total)
  /\ nresp' = nresp + 1
  /\ ultima' = Resposta("encurtar", 201,
                        DadosDict({"url_longa"}, url_longa[t]),
                        codigo_curto[t], url_longa[t], DictVazio)
  /\ criados' = Append(criados,
                       [codigo |-> codigo_curto[t], url |-> url_longa[t]])
  /\ pc' = [pc EXCEPT ![t] = "idle"]
  /\ codigo_curto' = [codigo_curto EXCEPT ![t] = SemCodigo]
  /\ url_longa' = [url_longa EXCEPT ![t] = NoneVal]
  /\ UNCHANGED <<url_db, redirecionamentos_total, pedidos, redirs_ok>>

(* -------------------------- redirecionar ------------------------------- *)
\* line 72: url_db.get(codigo_curto)
Get(db, c) == IF c \in DOMAIN db THEN db[c] ELSE NoneVal

\* faulty variant of line 72: url_db.pop(codigo_curto, None) takes the entry out
url_db_apos_pop(db, c) == [k \in (DOMAIN db) \ {c} |-> db[k]]

\* line 72: url_db after url_db.get(codigo_curto), which only reads
url_db_apos_get(db, c) == db

\* faulty variant of lines 72-77: the counter moves before the test of line 73
redirecionar_conta_sempre(db, c) ==
  IF Truthy(Get(db, c))
    THEN [status |-> 302, url |-> Get(db, c), inc |-> 1]
    ELSE [status |-> 404, url |-> NoneVal, inc |-> 1]

\* lines 72-77: the status, the Location and the counter increment
redirecionar(db, c) ==
  IF Truthy(Get(db, c))
    THEN [status |-> 302, url |-> Get(db, c), inc |-> 1]
    ELSE [status |-> 404, url |-> NoneVal, inc |-> 0]

Redirecionar(c) ==
  /\ pedidos < MaxPedidos
  /\ c \in Caminhos
  /\ LET r == redirecionar(url_db, c) IN
       /\ redirecionamentos_total' =
            IF r.inc = 1 THEN Inc(redirecionamentos_total)
                         ELSE redirecionamentos_total
       /\ ultima' = Resposta("redirecionar", r.status, DadosNone, c, r.url,
                             DictVazio)
       /\ redirs_ok' = IF r.status = 302 THEN redirs_ok + 1 ELSE redirs_ok
  /\ pedidos' = pedidos + 1
  /\ nresp' = nresp + 1
  /\ url_db' = url_db_apos_get(url_db, c)
  /\ UNCHANGED <<links_criados_total, pc, codigo_curto, url_longa, criados>>

(* -------------------------- listar_links ------------------------------- *)
\* faulty variant of line 81: the copy stops after the first key
listar_links_parcial(db) ==
  [k \in {x \in DOMAIN db : x = CHOOSE y \in DOMAIN db : TRUE} |-> db[k]]

\* line 81: jsonify(url_db), the JSON object with one member per key.  The
\* encoder copies the items of the dict in one call (sorted(dct.items()),
\* Flask sorts keys by default), so the body is url_db at one instant.
listar_links(db) == [k \in DOMAIN db |-> db[k]]

ListarLinks ==
  /\ pedidos < MaxPedidos
  /\ ultima' = Resposta("listar", 200, DadosNone, SemCodigo, NoneVal,
                        listar_links(url_db))
  /\ pedidos' = pedidos + 1
  /\ nresp' = nresp + 1
  /\ UNCHANGED <<shared, pc, codigo_curto, url_longa, criados, redirs_ok>>

(* --------------------------- the system -------------------------------- *)
Next ==
  \/ \E d \in CorposJson : EncurtarRecusa(d)
  \/ \E t \in Threads, d \in CorposJson, c \in Codigos : EncurtarAceita(t, d, c)
  \/ \E t \in Threads : EncurtarLivre(t)
  \/ \E t \in Threads, c \in Codigos : EncurtarColide(t, c)
  \/ \E t \in Threads : EncurtarGrava(t)
  \/ \E t \in Threads : EncurtarResponde(t)
  \/ \E c \in Caminhos : Redirecionar(c)
  \/ ListarLinks

Spec == Init /\ [][Next]_vars

\* the next step of thread t inside encurtar_url
Passo(t) ==
  \/ EncurtarLivre(t)
  \/ \E c \in Codigos : EncurtarColide(t, c)
  \/ EncurtarGrava(t)
  \/ EncurtarResponde(t)

\* line 62 draws a code that is not in url_db
SorteiaLivre(t) ==
  \E c \in Codigos : ~CodigoEmUso(url_db, c) /\ EncurtarColide(t, c)

(* Scheduling: a thread inside encurtar_url keeps being run, and          *)
(* random.choice is uniform, so a loop that keeps drawing while some code *)
(* is free draws a free code sooner or later.                             *)
Fairness ==
  \A t \in Threads : WF_vars(Passo(t)) /\ SF_vars(SorteiaLivre(t))

FairSpec == Init /\ [][Next]_vars /\ Fairness

\* some encurtar_url call is between its test of line 61 and its write
EntreTesteEEscrita == \E t \in Threads : pc[t] = "L63"

(* Executions in which encurtar_url calls do not overlap between test and *)
(* write: while a call has left the loop of line 61 and not yet written,  *)
(* no other call takes a step of encurtar_url.  The single-step requests  *)
(* still come at any moment.                                              *)
AceitaSemSobreposicao(t, d, c) ==
  ~EntreTesteEEscrita /\ EncurtarAceita(t, d, c)

LivreSemSobreposicao(t) == ~EntreTesteEEscrita /\ EncurtarLivre(t)

ColideSemSobreposicao(t, c) == ~EntreTesteEEscrita /\ EncurtarColide(t, c)

RespondeSemSobreposicao(t) == ~EntreTesteEEscrita /\ EncurtarResponde(t)

NextSemSobreposicao ==
  \/ \E d \in CorposJson : EncurtarRecusa(d)
  \/ \E t \in Threads, d \in CorposJson, c \in Codigos :
       AceitaSemSobreposicao(t, d, c)
  \/ \E t \in Threads : LivreSemSobreposicao(t)
  \/ \E t \in Threads, c \in Codigos : ColideSemSobreposicao(t, c)
  \/ \E t \in Threads : EncurtarGrava(t)
  \/ \E t \in Threads : RespondeSemSobreposicao(t)
  \/ \E c \in Caminhos : Redirecionar(c)
  \/ ListarLinks

SpecSemSobreposicao == Init /\ [][NextSemSobreposicao]_vars

(* ============================== claims ================================= *)
\* the step sends a response of handler op
Responde(op) == nresp' = nresp + 1 /\ ultima'.op = op

\* what a GET of code c answers in store db
Resolve(db, c) == [status |-> redirecionar(db, c).status,
                   url |-> redirecionar(db, c).url]

\* C1: the 201 responses of encurtar_url carry pairwise distinct codes, under
\* any interleaving: N completed calls leave N distinct codes, no write lost.
C1_CodigosDistintos ==
  \A i, j \in 1..Len(criados) :
    i # j => criados[i].codigo # criados[j].codigo

\* C2: once a code is bound in url_db, the URL stored under it never changes.
C2_LigacaoImutavel ==
  [][\A c \in DOMAIN url_db :
       c \in DOMAIN url_db' /\ url_db'[c] = url_db[c]]_vars

\* C3: round trip: whenever encurtar_url has answered 201 with code c for a
\* non-empty URL u, a GET of c answers a redirect to exactly u.
C3_RoundTrip ==
  \A i \in 1..Len(criados) :
    Truthy(criados[i].url) =>
      Resolve(url_db, criados[i].codigo) =
        [status |-> 302, url |-> criados[i].url]

\* the destination URL of body d is absent or empty
UrlAusenteOuVazia(d) ==
  d.nulo \/ "url_longa" \notin d.chaves \/ d.url_longa = ""

\* C4: encurtar_url answers 400 whenever the destination URL is absent or
\* empty, and then leaves url_db and both counters unchanged.
C4_RecusaAusenteOuVazia ==
  [][(Responde("encurtar") /\ UrlAusenteOuVazia(ultima'.dados))
       => (ultima'.status = 400 /\ UNCHANGED shared)]_vars

\* C5: a GET of a code that is bound in url_db at the time of the call
\* answers 302 with the bound URL and adds exactly one to
\* redirecionamentos_total; it never answers 404.
C5_LigadoEncontrado ==
  [][(Responde("redirecionar") /\ ultima'.codigo \in DOMAIN url_db)
       => /\ ultima'.status = 302
          /\ ultima'.url = url_db[ultima'.codigo]
          /\ redirecionamentos_total' = redirecionamentos_total + 1]_vars

\* C6: a GET of a code with no binding answers 404 and changes neither
\* url_db nor links_criados_total nor redirecionamentos_total.
C6_NaoEncontradoSemEfeito ==
  [][(Responde("redirecionar") /\ ultima'.codigo \notin DOMAIN url_db)
       => (ultima'.status = 404 /\ UNCHANGED shared)]_vars

\* C6 witness: a 404 was answered for an unbound code while the store and
\* the creation counter were not empty
C6_Witness ==
  /\ ultima.op = "redirecionar"
  /\ ultima.status = 404
  /\ ultima.codigo \notin DOMAIN url_db
  /\ url_db # DictVazio
  /\ links_criados_total > 0

\* the step sends a response that is not a success (400 or 404) or a listing
RespostaSemSucesso ==
  nresp' = nresp + 1 /\ ultima'.status \in {400, 404, 200}

\* C7: links_criados_total is the number of 201 responses and
\* redirecionamentos_total the number of 302 responses sent so far; no
\* counter ever decreases, and a 400, a 404 or a listing changes neither.
C7_ContadoresExatos ==
  /\ links_criados_total = 0 /\ redirecionamentos_total = 0
  /\ [][/\ links_criados_total' = Len(criados')
        /\ redirecionamentos_total' = redirs_ok'
        /\ links_criados_total' >= links_criados_total
        /\ redirecionamentos_total' >= redirecionamentos_total
        /\ RespostaSemSucesso =>
             UNCHANGED <<links_criados_total, redirecionamentos_total>>]_vars

\* C7 witness: a creation and a redirect were counted and then a call failed
C7_Witness ==
  /\ Len(criados) >= 1
  /\ redirs_ok >= 1
  /\ links_criados_total >= 1
  /\ ultima.status \in {400, 404}

\* every code of the code space is bound
Cheio == DOMAIN url_db = Codigos

\* C8 as stated: every accepted encurtar_url call leaves the loop of lines
\* 61-62 and completes, whatever the store holds.
C8_SempreTermina ==
  \A t \in Threads : (pc[t] = "L61") ~> (pc[t] = "idle")

\* C8 amended: every accepted encurtar_url call completes, unless the store
\* comes to hold every code of the code space while the call is in its loop,
\* in which case the call draws codes forever.
C8_TerminaSeHaCodigoLivre ==
  \A t \in Threads :
    (pc[t] = "L61") ~> (pc[t] = "idle" \/ (pc[t] = "L61" /\ Cheio))

\* C8 witness: a call has drawn a code that is taken while a code is free
C8_Witness ==
  \E t \in Threads :
    /\ pc[t] = "L61"
    /\ CodigoEmUso(url_db, codigo_curto[t])
    /\ ~Cheio

\* C9: a listing changes neither url_db nor the counters, its body is
\* exactly the bindings of url_db, and every binding a completed
\* encurtar_url call created is in it with its URL.
C9_ListagemFiel ==
  [][Responde("listar")
       => /\ UNCHANGED shared
          /\ ultima'.corpo = url_db
          /\ \A i \in 1..Len(criados) :
               /\ criados[i].codigo \in DOMAIN ultima'.corpo
               /\ ultima'.corpo[criados[i].codigo] = criados[i].url]_vars

\* C10: a GET of an unbound code answers 404, and a step changes what a GET
\* of code c answers only if it is the write of line 63 binding c itself.
C10_NaoEncontradoEstavel ==
  [][/\ \A c \in Caminhos \ DOMAIN url_db' : Resolve(url_db', c).status = 404
     /\ url_db' # url_db =>
          \A c \in Caminhos :
            Resolve(url_db', c) # Resolve(url_db, c) =>
              \E t \in Threads :
                pc[t] = "L63" /\ pc'[t] = "L64" /\ codigo_curto[t] = c]_vars

\* C10 witness: after a call bound one code, a GET of another code of the
\* code space, still unbound, answered 404
C10_Witness ==
  /\ Len(criados) >= 1
  /\ ultima.op = "redirecionar"
  /\ ultima.status = 404
  /\ ultima.codigo \in Codigos \ DOMAIN url_db
  /\ \E c \in DOMAIN url_db : Resolve(url_db, c).status = 302

\* C11: a GET of code c answers what the store holds for c and changes what
\* no later GET answers, for any c, bound or not: repeated GETs of c with no
\* encurtar_url step in between all answer the same.
C11_ConsultaIdempotente ==
  [][Responde("redirecionar")
       => /\ [status |-> ultima'.status, url |-> ultima'.url]
               = Resolve(url_db', ultima'.codigo)
          /\ \A c \in Caminhos : Resolve(url_db', c) = Resolve(url_db, c)]_vars

\* C11 witness: the one bound code was redirected twice
C11_Witness ==
  /\ Cardinality(DOMAIN url_db) = 1
  /\ redirs_ok >= 2
  /\ ultima.op = "redirecionar"
  /\ ultima.status = 302

\* C12: two 201 responses for the same non-empty destination URL carry two
\* distinct codes, and both codes are bound to that URL in url_db.
C12_SemDedup ==
  \A i, j \in 1..Len(criados) :
    (i # j /\ criados[i].url = criados[j].url /\ Truthy(criados[i].url)) =>
      /\ criados[i].codigo # criados[j].codigo
      /\ Get(url_db, criados[i].codigo) = criados[i].url
      /\ Get(url_db, criados[j].codigo) = criados[j].url

\* thread t executes the write of line 63 in this step
Escreve(t) == pc[t] = "L63" /\ pc'[t] = "L64"

\* C13: the write of an encurtar_url call for a non-empty URL adds exactly
\* one binding, under a code that was not bound, and leaves every other
\* binding as it was; no step of any operation removes a binding.
C13_SoAcrescenta ==
  [][/\ DOMAIN url_db \subseteq DOMAIN url_db'
     /\ \A t \in Threads :
          (Escreve(t) /\ Truthy(url_longa[t])) =>
            /\ codigo_curto[t] \notin DOMAIN url_db
            /\ DOMAIN url_db' = DOMAIN url_db \cup {codigo_curto[t]}
            /\ \A k \in DOMAIN url_db : url_db'[k] = url_db[k]]_vars

Alfabeto == {caracteres[i] : i \in 1..Len(caracteres)}

\* C15: every key of url_db has exactly 6 characters, each one of the 62
\* ASCII letters and digits.
C15_FormaDasChaves ==
  /\ Cardinality(Alfabeto) = 62
  /\ \A k \in DOMAIN url_db :
       /\ Len(k) = 6
       /\ \A i \in 1..Len(k) : k[i] \in Alfabeto

\* C15 witness: two different codes are keys of url_db
C15_Witness == Cardinality(DOMAIN url_db) >= 2

\* C16: when no encurtar_url call is in flight, url_db has as many bindings
\* as links_criados_total counts.
C16_ContagemIgualLigacoes ==
  (\A t \in Threads : pc[t] = "idle") =>
    Cardinality(DOMAIN url_db) = links_criados_total

\* C17: when encurtar_url calls do not overlap between test and write, the
\* write of line 63 targets a code absent from url_db and changes no
\* existing binding.
C17_EscritaEmCodigoLivre ==
  [][\A t \in Threads :
       Escreve(t) =>
         /\ codigo_curto[t] \notin DOMAIN url_db
         /\ \A k \in DOMAIN url_db :
              k \in DOMAIN url_db' /\ url_db'[k] = url_db[k]]_vars

\* C17 witness: a call has just written a second binding while another call,
\* which had drawn a code now taken, is still in its loop
C17_Witness ==
  /\ Cardinality(DOMAIN url_db) = 2
  /\ \E t \in Threads : pc[t] = "L64"
  /\ \E t \in Threads : pc[t] = "L61" /\ CodigoEmUso(url_db, codigo_curto[t])

====
